---- MODULE Spec2Model ----
(***************************************************************************)
(* The gpsd session client of gpsd_influxdb/lib/Gpsd.py.                   *)
(*                                                                         *)
(* One caller thread drives Gpsd objects.  A call runs until it blocks in  *)
(* readline(); the daemon's next line (a recv step) resumes it.  The daemon *)
(* is unconstrained: every read may return any line.                       *)
(*                                                                         *)
(* Spec      the session: constructor, connect, disconnect, poll, parse.   *)
(* SpecLive  the session with a daemon that answers every read.            *)
(* SpecParse from_json's assignments and the queries, on bounded reports.  *)
(***************************************************************************)
EXTENDS Integers, Sequences, FiniteSets, TLC

\* ------------------------------------------------------------- bounds
MaxObjs == 2        \* Gpsd objects ever constructed
MaxConns == 3       \* sockets ever created

Objs == 1..MaxObjs
Conns == 1..MaxConns

\* gpsd_socket = None / gpsd_stream = None
None == 0

\* ------------------------------------------------------------- wire data
Dev1 == [path |-> "/dev/ttyA", bps |-> 9600, driver |-> "NMEA"]
Dev2 == [path |-> "/dev/ttyB", bps |-> 4800, driver |-> "SiRF"]
NoDev == [path |-> "", bps |-> 0, driver |-> ""]
DevLists == {<< >>, <<Dev2, Dev1>>}
\* Two WATCH acknowledgments that differ in content.
Acks == {"nmea", "json"}

\* A decoded JSON line; fields a class does not carry hold their blank value.
L(c) == [class |-> c, devices |-> << >>, ack |-> "", active |-> FALSE, mode |-> 0]
NoLine == L("none")
DevicesLines == {[L("DEVICES") EXCEPT !.devices = d] : d \in DevLists}
WatchLines == {[L("WATCH") EXCEPT !.ack = a] : a \in Acks}
PollLines == {[L("POLL") EXCEPT !.active = FALSE],
              [L("POLL") EXCEPT !.active = TRUE, !.mode = 3]}
\* GARBAGE: a line json.loads rejects (the empty line of a closed stream too).
Lines == {L("VERSION"), L("TPV"), L("GARBAGE")}
           \cup DevicesLines \cup WatchLines \cup PollLines

\* The requests the client writes.
WatchReq == [L("?WATCH") EXCEPT !.active = TRUE]
PollReq == L("?POLL")

\* A Python dict with keys among 'devices' and 'watch'; NoLine: key absent.
EmptyDict == [devices |-> NoLine, watch |-> NoLine]

\* ------------------------------------------------------------- reports
MaxVal == 1         \* largest magnitude of a raw speed, largest error margin
MaxLen == 2         \* longest tpv / sky sequence of a report

\* A Python dict with optional keys is a record with the set `has` of the keys
\* present; d.get(k, default) in the "x[k] if k in x else default" idiom:
Get(d, k, default) == IF k \in d.has THEN d[k] ELSE default

TpvKeys == {"lon", "lat", "track", "speed", "time", "eps", "ept", "epx", "epy",
            "alt", "climb", "epc", "epv"}
SkyKeys == {"satellites", "hdop", "vdop", "pdop"}
ErrorKeys == {"c", "s", "t", "v", "x", "y"}

\* Two GPS time texts that gpsTimeFormat parses.
Stamps == {"2021-06-01T12:00:00.000Z", "2020-01-01T00:00:00.000Z"}
Stamp(b) == IF b = 10 THEN "2021-06-01T12:00:00.000Z" ELSE "2020-01-01T00:00:00.000Z"

\* A tpv entry of mode m with the keys `has`; s, es, c, ec are its speed, eps,
\* climb and epc, the other values are distinct numbers above the base b.
\* A key that is absent holds its blank value.
Tpv(m, has, b, s, es, c, ec) ==
    LET v(k, x, blank) == IF k \in has THEN x ELSE blank
    IN [mode |-> m, has |-> has,
        lon |-> v("lon", b + 1, 0), lat |-> v("lat", b + 2, 0),
        track |-> v("track", b + 3, 0), speed |-> v("speed", s, 0),
        time |-> v("time", Stamp(b), ""),
        eps |-> v("eps", es, 0), ept |-> v("ept", b + 4, 0),
        epx |-> v("epx", b + 5, 0), epy |-> v("epy", b + 6, 0),
        alt |-> v("alt", b + 7, 0), climb |-> v("climb", c, 0),
        epc |-> v("epc", ec, 0), epv |-> v("epv", b + 8, 0)]

\* A sky entry with the keys `has`: n satellites, the odd ones used.
Sky(has, b, n) ==
    LET v(k, x, blank) == IF k \in has THEN x ELSE blank
    IN [has |-> has,
        satellites |-> v("satellites", [i \in 1..n |-> [used |-> i % 2 = 1]], << >>),
        hdop |-> v("hdop", b + 1, 0), vdop |-> v("vdop", b + 2, 0),
        pdop |-> v("pdop", b + 3, 0)]

Modes == 0..3
Raw == (0 - MaxVal)..MaxVal
Margins == 0..MaxVal
\* All keys, none, or the raw values without their error estimates.
TpvKeySets == {TpvKeys, {}, {"lon", "lat", "speed", "climb"}}
SkyKeySets == {SkyKeys, {}, {"satellites"}}

\* The entries a report may end with, and the entry that may precede them.
TpvEntries ==
    {Tpv(m, has, 10, s, es, c, ec) :
        m \in Modes, has \in TpvKeySets, s \in Raw, es \in Margins,
        c \in Raw, ec \in Margins}
SkyEntries == {Sky(has, 10, 3) : has \in SkyKeySets}
OldTpv == Tpv(3, TpvKeys, 20, MaxVal, 0, 0 - MaxVal, 0)
OldSky == Sky(SkyKeys, 20, 1)

\* Non-empty sequences of at most MaxLen entries.
Entries(old, lasts) ==
    {[i \in 1..n |-> IF i = n THEN e ELSE old] : n \in 1..MaxLen, e \in lasts}

Reports ==
    {[active |-> a, tpv |-> t, sky |-> s] :
        a \in BOOLEAN, t \in Entries(OldTpv, TpvEntries),
        s \in Entries(OldSky, SkyEntries)}
NoReport == [active |-> FALSE, tpv |-> << >>, sky |-> << >>]

\* The report a POLL line of the session carries: one tpv entry of the line's
\* mode with every key, one sky entry with every key.
PollReport(line) ==
    [active |-> line.active,
     tpv |-> <<Tpv(line.mode, TpvKeys, 10, MaxVal, 0, 0 - MaxVal, 0)>>,
     sky |-> <<Sky(SkyKeys, 10, 3)>>]

\* ------------------------------------------------------------- position fields
\* self.error = {}
EmptyError == [has |-> {}, c |-> 0, s |-> 0, t |-> 0, v |-> 0, x |-> 0, y |-> 0]

\* The position fields __init__ sets; it sets no vdop attribute.
Fresh ==
    [mode |-> 0, sats |-> 0, sats_valid |-> 0, hdop |-> 0, pdop |-> 0,
     lon |-> 0, lat |-> 0, alt |-> 0, track |-> 0, hspeed |-> 0, climb |-> 0,
     time |-> "", error |-> EmptyError, has_vdop |-> FALSE, vdop |-> 0]

\* Mutant of last: the first entry of the sequence.
first(seq) == seq[1]

\* seq[-1]
last(seq) == seq[Len(seq)]

\* Mutant of AtLeast: the gate is always taken.
AtLeast_always(m, fix) == TRUE

\* Mutant of AtLeast: the gate is never taken.
AtLeast_never(m, fix) == FALSE

\* "if last_tpv['mode'] >= 2:" / "if last_tpv['mode'] >= 3:"
AtLeast(m, fix) == m >= fix

\* from_json after the active check: the fields of `result` after the
\* assignments of the report's last entries, in the code's order.
from_json_fields(res, pkt) ==
    LET last_tpv == last(pkt.tpv)
        last_sky == last(pkt.sky)
        sats == Get(last_sky, "satellites", << >>)
        r1 == [res EXCEPT
                 !.sats = Len(sats),
                 !.sats_valid = Cardinality({i \in DOMAIN sats : sats[i].used}),
                 !.hdop = Get(last_sky, "hdop", 0),
                 !.has_vdop = TRUE,
                 !.vdop = Get(last_sky, "vdop", 0),
                 !.pdop = Get(last_sky, "pdop", 0),
                 !.mode = last_tpv.mode]
        r2 == IF AtLeast(last_tpv.mode, 2)
              THEN [r1 EXCEPT
                      !.lon = Get(last_tpv, "lon", 0),
                      !.lat = Get(last_tpv, "lat", 0),
                      !.track = Get(last_tpv, "track", 0),
                      !.hspeed = Get(last_tpv, "speed", 0),
                      !.time = Get(last_tpv, "time", ""),
                      !.error = [has |-> ErrorKeys,
                                 c |-> 0,
                                 s |-> Get(last_tpv, "eps", 0),
                                 t |-> Get(last_tpv, "ept", 0),
                                 v |-> 0,
                                 x |-> Get(last_tpv, "epx", 0),
                                 y |-> Get(last_tpv, "epy", 0)]]
              ELSE r1
    IN IF AtLeast(last_tpv.mode, 3)
       THEN [r2 EXCEPT
               !.alt = Get(last_tpv, "alt", 0),
               !.climb = Get(last_tpv, "climb", 0),
               !.error = [@ EXCEPT !.has = @ \cup {"c", "v"},
                                   !.c = Get(last_tpv, "epc", 0),
                                   !.v = Get(last_tpv, "epv", 0)]]
       ELSE r2

VARIABLES
    nobj,           \* Gpsd objects constructed so far
    held,           \* objects the caller holds a reference to
    gpsd_socket,    \* per object: its socket, or None
    gpsd_stream,    \* per object: its stream (the socket it wraps), or None
    own,            \* per object: has an instance attribute `state`
    istate,         \* per object: the instance attribute `state`
    cstate,         \* the class attribute Gpsd.state
    pos,            \* per object: its position fields (self.mode .. self.error)
    nconn,          \* sockets created so far
    conn,           \* per socket: status and owning object
    io,             \* the requests written and lines read by the running (or last) call
    hs,             \* per object: how its last connect() ended, "none" once disconnected
    pc,             \* where the running call is blocked, or "idle"
    call,           \* the running (or last) top-level call
    ret,            \* outcome of the last finished call
    report,         \* from_json alone: the packet it was given
    result,         \* from_json alone: the object `result` it fills
    stage,          \* from_json alone: "new" after cls(), then "parsed" or "failed"
    out             \* from_json alone: outcome of the last parse or query

session == <<nobj, held, gpsd_socket, gpsd_stream, own, istate, cstate, pos,
             nconn, conn, io, hs, pc, call, ret>>

parser == <<report, result, stage, out>>

vars == <<nobj, held, gpsd_socket, gpsd_stream, own, istate, cstate, pos,
          nconn, conn, io, hs, pc, call, ret, report, result, stage, out>>

heap == <<gpsd_socket, gpsd_stream, own, istate, cstate, pos>>

NoCall == [op |-> "none", self |-> None, cur |-> None, i |-> 0, packet |-> NoLine]
Ret(e, o, d) == [err |-> e, obj |-> o, dev |-> d]

\* No Gpsd object exists yet.
NoSession ==
    /\ nobj = 0
    /\ held = {}
    /\ gpsd_socket = [o \in Objs |-> None]
    /\ gpsd_stream = [o \in Objs |-> None]
    /\ own = [o \in Objs |-> FALSE]
    /\ istate = [o \in Objs |-> EmptyDict]
    /\ cstate = EmptyDict
    /\ pos = [o \in Objs |-> Fresh]
    /\ nconn = 0
    /\ conn = [k \in Conns |-> [st |-> "unused", owner |-> None]]
    /\ io = << >>
    /\ hs = [o \in Objs |-> "none"]
    /\ pc = "idle"
    /\ call = NoCall
    /\ ret = Ret("none", None, NoDev)

\* The outcome of a parse or of a query.
Ans(op, e, v) == [op |-> op, err |-> e, val |-> v]
NoAns == Ans("none", "none", << >>)

Init ==
    /\ NoSession
    /\ report = NoReport
    /\ result = Fresh
    /\ stage = "none"
    /\ out = NoAns

\* self.state: the instance attribute when there is one, else the class's.
state(o) == IF own[o] THEN istate[o] ELSE cstate

\* ------------------------------------------------------------- outcomes
\* raise Exception("Unexpected ...") is the client's protocol error.
ProtocolError == "Exception"
Running == Ret("running", None, NoDev)

\* An exception leaves the call: it propagates through every frame to the caller.
Raise(e, o) ==
    /\ pc' = "idle"
    /\ ret' = Ret(e, o, NoDev)

\* The frame of a call that has ended: its locals are gone.
Ended(cl) == [cl EXCEPT !.cur = None, !.packet = NoLine]

Return(o) ==
    /\ pc' = "idle"
    /\ ret' = Ret("ok", o, NoDev)

\* stream.write(req); stream.flush()  /  stream.readline()
Sent(k, req) == [k |-> k, dir |-> "w", msg |-> req]
Got(k, line) == [k |-> k, dir |-> "r", msg |-> line]

\* ------------------------------------------------------------- disconnect()
\* socket.shutdown(SHUT_RDWR) on a socket whose connect() was refused raises
\* OSError (ENOTCONN) before anything is released.
shutdown_raises(o) ==
    gpsd_socket[o] # None /\ conn[gpsd_socket[o]].st = "unconnected"

\* The socket table after shutdown/close of o's socket and close of o's stream.
disconnect_conn(o) ==
    [k \in Conns |-> IF k \in {gpsd_socket[o], gpsd_stream[o]}
                     THEN [conn[k] EXCEPT !.st = "closed"]
                     ELSE conn[k]]

disconnect(c) ==
    /\ pc = "idle"
    /\ c \in held
    /\ call' = [NoCall EXCEPT !.op = "disconnect", !.self = c, !.cur = c]
    /\ io' = << >>
    /\ IF shutdown_raises(c)
       THEN /\ Raise("OSError", c)
            /\ UNCHANGED <<gpsd_socket, gpsd_stream, own, istate, conn, hs>>
       ELSE /\ gpsd_socket' = [gpsd_socket EXCEPT ![c] = None]
            /\ gpsd_stream' = [gpsd_stream EXCEPT ![c] = None]
            /\ own' = [own EXCEPT ![c] = TRUE]
            /\ istate' = [istate EXCEPT ![c] = EmptyDict]
            /\ conn' = disconnect_conn(c)
            /\ hs' = [hs EXCEPT ![c] = "none"]
            /\ Return(c)
    /\ UNCHANGED <<nobj, held, cstate, pos, nconn>>
    /\ UNCHANGED parser

\* ------------------------------------------------------------- connect()
\* Mutant of NeedsDisconnect: connect() never tears the old connection down.
NeedsDisconnect_never(o) == FALSE

\* "if self.gpsd_socket or self.gpsd_stream: self.disconnect()"
NeedsDisconnect(o) == gpsd_socket[o] # None \/ gpsd_stream[o] # None

\* connect() up to its first readline(): tear down, open a socket, wrap it.
\* refused: socket.connect() fails.
connect_enter(o, refused) ==
    LET re == NeedsDisconnect(o) IN
    IF re /\ shutdown_raises(o)
    THEN /\ Raise("OSError", o)
         /\ hs' = [hs EXCEPT ![o] = "failed"]
         /\ UNCHANGED <<gpsd_socket, gpsd_stream, own, istate, nconn, conn>>
    ELSE LET k == nconn + 1
             c1 == IF re THEN disconnect_conn(o) ELSE conn
         IN /\ nconn' = k
            /\ own' = IF re THEN [own EXCEPT ![o] = TRUE] ELSE own
            /\ istate' = IF re THEN [istate EXCEPT ![o] = EmptyDict] ELSE istate
            /\ gpsd_socket' = [gpsd_socket EXCEPT ![o] = k]
            /\ IF refused
               THEN /\ gpsd_stream' = [gpsd_stream EXCEPT ![o] = None]
                    /\ conn' = [c1 EXCEPT ![k] = [st |-> "unconnected", owner |-> o]]
                    /\ hs' = [hs EXCEPT ![o] = "failed"]
                    /\ Raise("ConnectionRefusedError", o)
               ELSE /\ gpsd_stream' = [gpsd_stream EXCEPT ![o] = k]
                    /\ conn' = [c1 EXCEPT ![k] = [st |-> "open", owner |-> o]]
                    /\ hs' = [hs EXCEPT ![o] = "running"]
                    /\ pc' = "welcome"
                    /\ ret' = Running

connect(c, refused) ==
    /\ pc = "idle"
    /\ c \in held
    /\ nconn < MaxConns
    /\ call' = [NoCall EXCEPT !.op = "connect", !.self = c, !.cur = c]
    /\ io' = << >>
    /\ connect_enter(c, refused)
    /\ UNCHANGED <<nobj, held, cstate, pos>>
    /\ UNCHANGED parser

\* ------------------------------------------------------------- __init__()
\* The constructor sets the position fields and connects.
Gpsd_init(o, refused) ==
    /\ nobj' = o
    /\ pos' = [pos EXCEPT ![o] = Fresh]
    /\ connect_enter(o, refused)

\* Gpsd(host, port) called by the user.
new_Gpsd(refused) ==
    /\ pc = "idle"
    /\ nobj < MaxObjs
    /\ nconn < MaxConns
    /\ call' = [NoCall EXCEPT !.op = "new", !.self = nobj + 1, !.cur = nobj + 1]
    /\ io' = << >>
    /\ Gpsd_init(nobj + 1, refused)
    /\ UNCHANGED <<held, cstate>>
    /\ UNCHANGED parser

\* ------------------------------------------------------------- from_json()
\* Gpsd.from_json(packet) called by the user: "result = cls()" runs first.
from_json(packet, refused) ==
    /\ pc = "idle"
    /\ nobj < MaxObjs
    /\ nconn < MaxConns
    /\ call' = [NoCall EXCEPT !.op = "from_json", !.cur = nobj + 1, !.packet = packet]
    /\ io' = << >>
    /\ Gpsd_init(nobj + 1, refused)
    /\ UNCHANGED <<held, cstate>>
    /\ UNCHANGED parser

\* Mutant of from_json_body: the position fields are attributes of the class,
\* so filling `result` fills every object.
from_json_body_shared(o, packet) ==
    IF ~packet.active
    THEN /\ Raise("UserWarning", None)
         /\ UNCHANGED <<held, pos>>
    ELSE /\ pos' = [x \in Objs |->
                      IF x <= nobj THEN from_json_fields(pos[x], PollReport(packet))
                      ELSE pos[x]]
         /\ held' = held \cup {o}
         /\ Return(o)

\* from_json after cls() has returned `o`.
from_json_body(o, packet) ==
    IF ~packet.active
    THEN /\ Raise("UserWarning", None)
         /\ UNCHANGED <<held, pos>>
    ELSE /\ pos' = [pos EXCEPT ![o] = from_json_fields(@, PollReport(packet))]
         /\ held' = held \cup {o}
         /\ Return(o)

\* ------------------------------------------------------------- get_current()
get_current(c) ==
    /\ pc = "idle"
    /\ c \in held
    /\ call' = [NoCall EXCEPT !.op = "poll", !.self = c, !.cur = c]
    /\ IF gpsd_stream[c] = None
       THEN /\ Raise("AttributeError", c)
            /\ io' = << >>
       ELSE /\ nobj < MaxObjs
            /\ nconn < MaxConns
            /\ io' = <<Sent(gpsd_stream[c], PollReq)>>
            /\ pc' = "poll"
            /\ ret' = Running
    /\ UNCHANGED <<nobj, held, heap, nconn, conn, hs>>
    /\ UNCHANGED parser

\* Mutant of recv_poll: a line that is no POLL announcement makes the client
\* write the poll request again and wait for the next line.
recv_poll_retry(line, refused) ==
    /\ pc = "poll"
    /\ IF line.class # "POLL"
       THEN /\ io' = io \o <<Got(gpsd_stream[call.self], line),
                             Sent(gpsd_stream[call.self], PollReq)>>
            /\ UNCHANGED <<nobj, gpsd_socket, gpsd_stream, own, istate, pos,
                           nconn, conn, hs, pc, ret, call>>
       ELSE /\ io' = Append(io, Got(gpsd_stream[call.self], line))
            /\ call' = [call EXCEPT !.cur = nobj + 1, !.packet = line]
            /\ Gpsd_init(nobj + 1, refused)
    /\ UNCHANGED <<held, cstate>>
    /\ UNCHANGED parser

\* The line read after ?POLL;
recv_poll(line, refused) ==
    /\ pc = "poll"
    /\ io' = Append(io, Got(gpsd_stream[call.self], line))
    /\ IF line.class = "GARBAGE"
       THEN /\ Raise("JSONDecodeError", call.self)
            /\ call' = Ended(call)
            /\ UNCHANGED <<nobj, gpsd_socket, gpsd_stream, own, istate, pos,
                           nconn, conn, hs>>
       ELSE IF line.class # "POLL"
       THEN /\ Raise(ProtocolError, call.self)
            /\ call' = Ended(call)
            /\ UNCHANGED <<nobj, gpsd_socket, gpsd_stream, own, istate, pos,
                           nconn, conn, hs>>
       ELSE /\ call' = [call EXCEPT !.cur = nobj + 1, !.packet = line]
            /\ Gpsd_init(nobj + 1, refused)
    /\ UNCHANGED <<held, cstate>>
    /\ UNCHANGED parser

\* ------------------------------------------------------------- handshake
\* Mutant of recv_welcome: the watch request is written whatever the class
\* of the first line is.
recv_welcome_unchecked(line) ==
    /\ pc = "welcome"
    /\ LET o == call.cur
           k == gpsd_stream[o]
       IN IF line.class = "GARBAGE"
          THEN /\ Raise("JSONDecodeError", o)
               /\ io' = Append(io, Got(k, line))
               /\ hs' = [hs EXCEPT ![o] = "failed"]
               /\ call' = Ended(call)
          ELSE /\ io' = io \o <<Got(k, line), Sent(k, WatchReq)>>
               /\ pc' = "state"
               /\ call' = [call EXCEPT !.i = 0]
               /\ UNCHANGED <<ret, hs>>
    /\ UNCHANGED <<nobj, held, heap, nconn, conn>>
    /\ UNCHANGED parser

\* The welcome line.
recv_welcome(line) ==
    /\ pc = "welcome"
    /\ LET o == call.cur
           k == gpsd_stream[o]
       IN IF line.class = "GARBAGE"
          THEN /\ Raise("JSONDecodeError", o)
               /\ io' = Append(io, Got(k, line))
               /\ hs' = [hs EXCEPT ![o] = "failed"]
               /\ call' = Ended(call)
          ELSE IF line.class # "VERSION"
          THEN /\ Raise(ProtocolError, o)
               /\ io' = Append(io, Got(k, line))
               /\ hs' = [hs EXCEPT ![o] = "failed"]
               /\ call' = Ended(call)
          ELSE /\ io' = io \o <<Got(k, line), Sent(k, WatchReq)>>
               /\ pc' = "state"
               /\ call' = [call EXCEPT !.i = 0]
               /\ UNCHANGED <<ret, hs>>
    /\ UNCHANGED <<nobj, held, heap, nconn, conn>>
    /\ UNCHANGED parser

\* Mutant of Accepted: _parse_state_packet without its raising else branch.
Accepted_any(line) == TRUE

\* _parse_state_packet: the classes it stores
Accepted(line) == line.class \in {"DEVICES", "WATCH"}

\* _parse_state_packet: self.state[key] = json_data
Stored(d, line) ==
    IF line.class = "DEVICES" THEN [d EXCEPT !.devices = line]
    ELSE [d EXCEPT !.watch = line]

\* "for i in range(0, 2)"
StateLines == 2

\* One of the lines after the watch request; call.i counts the lines read.
recv_state(line) ==
    /\ pc = "state"
    /\ LET o == call.cur
       IN /\ io' = Append(io, Got(gpsd_stream[o], line))
          /\ IF line.class = "GARBAGE"
             THEN /\ Raise("JSONDecodeError", o)
                  /\ hs' = [hs EXCEPT ![o] = "failed"]
                  /\ UNCHANGED <<istate, cstate, held, pos>>
             ELSE IF ~Accepted(line)
             THEN /\ Raise(ProtocolError, o)
                  /\ hs' = [hs EXCEPT ![o] = "failed"]
                  /\ UNCHANGED <<istate, cstate, held, pos>>
             ELSE /\ IF own[o]
                     THEN /\ istate' = [istate EXCEPT ![o] = Stored(@, line)]
                          /\ UNCHANGED cstate
                     ELSE /\ cstate' = Stored(cstate, line)
                          /\ UNCHANGED istate
                  /\ IF call.i + 1 < StateLines
                     THEN UNCHANGED <<pc, ret, held, pos, hs>>
                     ELSE /\ hs' = [hs EXCEPT ![o] = "ok"]
                          /\ IF call.op = "new"
                             THEN /\ held' = held \cup {o}
                                  /\ Return(o)
                                  /\ UNCHANGED pos
                             ELSE IF call.op = "connect"
                             THEN /\ Return(o)
                                  /\ UNCHANGED <<held, pos>>
                             ELSE from_json_body(o, call.packet)
          /\ call' = IF pc' = "idle" THEN Ended([call EXCEPT !.i = @ + 1])
                            ELSE [call EXCEPT !.i = @ + 1]
    /\ UNCHANGED <<nobj, gpsd_socket, gpsd_stream, own, nconn, conn>>
    /\ UNCHANGED parser

\* ------------------------------------------------------------- device()
device_result(o) ==
    IF state(o).devices = NoLine THEN Ret("KeyError", o, NoDev)
    ELSE IF Len(state(o).devices.devices) = 0 THEN Ret("IndexError", o, NoDev)
    ELSE LET d == state(o).devices.devices[1]
         IN Ret("ok", o, [path |-> d.path, bps |-> d.bps, driver |-> d.driver])

device(c) ==
    /\ pc = "idle"
    /\ c \in held
    /\ call' = [NoCall EXCEPT !.op = "device", !.self = c, !.cur = c]
    /\ io' = << >>
    /\ ret' = device_result(c)
    /\ UNCHANGED <<nobj, held, heap, nconn, conn, hs, pc>>
    /\ UNCHANGED parser

\* ------------------------------------------------------------- queries
NoFixError == "NoFixError"

abs(x) == IF x < 0 THEN 0 - x ELSE x
max(a, b) == IF a >= b THEN a ELSE b

\* Mutant of MinFix: every query asks for a 2D fix only.
MinFix_2D(q) == 2

\* The fix each query needs: "if self.mode < 2" / "if self.mode < 3".
MinFix(q) == IF q \in {"altitude", "movement"} THEN 3 ELSE 2

\* The queries, as functions of the object's fields f.
position(f) ==
    IF f.mode < MinFix("position") THEN Ans("position", NoFixError, << >>)
    ELSE Ans("position", "ok", <<f.lat, f.lon>>)

altitude(f) ==
    IF f.mode < MinFix("altitude") THEN Ans("altitude", NoFixError, << >>)
    ELSE Ans("altitude", "ok", <<f.alt>>)

movement(f) ==
    IF f.mode < MinFix("movement") THEN Ans("movement", NoFixError, << >>)
    ELSE Ans("movement", "ok",
             [speed |-> f.hspeed, track |-> f.track, climb |-> f.climb])

speed_vertical(f) ==
    IF f.mode < MinFix("speed_vertical")
    THEN Ans("speed_vertical", NoFixError, << >>)
    ELSE IF "c" \notin f.error.has THEN Ans("speed_vertical", "KeyError", << >>)
    ELSE IF abs(f.climb) < f.error.c THEN Ans("speed_vertical", "ok", <<0>>)
    ELSE Ans("speed_vertical", "ok", <<f.climb>>)

speed(f) ==
    IF f.mode < MinFix("speed") THEN Ans("speed", NoFixError, << >>)
    ELSE IF "s" \notin f.error.has THEN Ans("speed", "KeyError", << >>)
    ELSE IF f.hspeed < f.error.s THEN Ans("speed", "ok", <<0>>)
    ELSE Ans("speed", "ok", <<f.hspeed>>)

position_precision(f) ==
    IF f.mode < MinFix("position_precision")
    THEN Ans("position_precision", NoFixError, << >>)
    ELSE IF {"x", "y", "v"} \ f.error.has # {}
    THEN Ans("position_precision", "KeyError", << >>)
    ELSE Ans("position_precision", "ok", <<max(f.error.x, f.error.y), f.error.v>>)

\* The URL text as its literal pieces and the two formatted numbers.
map_url(f) ==
    IF f.mode < MinFix("map_url") THEN Ans("map_url", NoFixError, << >>)
    ELSE Ans("map_url", "ok",
             <<"https://www.openstreetmap.org/?mlat=", f.lat, "&mlon=", f.lon,
               "&zoom=15">>)

\* strptime accepts the texts of gpsTimeFormat (Stamps) and rejects the rest,
\* the empty default among them; local_time attaches the local zone.
get_time(f, local_time) ==
    IF f.mode < MinFix("get_time") THEN Ans("get_time", NoFixError, << >>)
    ELSE IF f.time \notin Stamps THEN Ans("get_time", "ValueError", << >>)
    ELSE Ans("get_time", "ok",
             [parsed |-> f.time, tzinfo |-> IF local_time THEN "local" ELSE "none"])

Queries == {"position", "altitude", "movement", "speed_vertical", "speed",
            "position_precision", "map_url", "get_time"}

\* ------------------------------------------------------------- from_json alone
\* from_json(report) once "result = cls()" has returned the new object.
InitParse ==
    /\ NoSession
    /\ report \in Reports
    /\ result = Fresh
    /\ stage = "new"
    /\ out = NoAns

\* Lines 117..164: the active check, then the assignments.
parse ==
    /\ stage = "new"
    /\ IF ~report.active
       THEN /\ stage' = "failed"
            /\ out' = Ans("from_json", "UserWarning", << >>)
            /\ UNCHANGED result
       ELSE /\ stage' = "parsed"
            /\ out' = Ans("from_json", "ok", << >>)
            /\ result' = from_json_fields(result, report)
    /\ UNCHANGED <<report, session>>

\* A query on the object: before from_json fills it, or once it is returned.
\* No query assigns to a field.
ask(a) ==
    /\ stage \in {"new", "parsed"}
    /\ out' = a
    /\ UNCHANGED <<report, result, stage, session>>

ask_position == ask(position(result))
ask_altitude == ask(altitude(result))
ask_movement == ask(movement(result))
ask_speed_vertical == ask(speed_vertical(result))
ask_speed == ask(speed(result))
ask_position_precision == ask(position_precision(result))
ask_map_url == ask(map_url(result))
ask_get_time(local_time) == ask(get_time(result, local_time))

NextParse ==
    \/ parse
    \/ ask_position
    \/ ask_altitude
    \/ ask_movement
    \/ ask_speed_vertical
    \/ ask_speed
    \/ ask_position_precision
    \/ ask_map_url
    \/ \E local_time \in BOOLEAN : ask_get_time(local_time)

SpecParse == InitParse /\ [][NextParse]_vars

\* ------------------------------------------------------------- specification
Next ==
    \/ \E r \in BOOLEAN : new_Gpsd(r)
    \/ \E c \in Objs, r \in BOOLEAN : connect(c, r)
    \/ \E c \in Objs : disconnect(c)
    \/ \E c \in Objs : get_current(c)
    \/ \E p \in PollLines, r \in BOOLEAN : from_json(p, r)
    \/ \E c \in Objs : device(c)
    \/ \E l \in Lines : recv_welcome(l)
    \/ \E l \in Lines : recv_state(l)
    \/ \E l \in Lines, r \in BOOLEAN : recv_poll(l, r)

Spec == Init /\ [][Next]_vars

\* The daemon's next line reaches the call that is blocked in readline().
Deliver ==
    \/ \E l \in Lines : recv_welcome(l)
    \/ \E l \in Lines : recv_state(l)
    \/ \E l \in Lines, r \in BOOLEAN : recv_poll(l, r)

\* The session with a daemon that answers every read: a call blocked in
\* readline() does not wait forever.
SpecLive == Init /\ [][Next]_vars /\ WF_vars(Deliver)

TypeOK ==
    /\ nobj \in 0..MaxObjs
    /\ held \subseteq 1..nobj
    /\ nconn \in 0..MaxConns
    /\ pc \in {"idle", "welcome", "state", "poll"}
    /\ \A o \in Objs : gpsd_socket[o] \in 0..nconn /\ gpsd_stream[o] \in 0..nconn

\* ------------------------------------------------------------- vocabulary
\* The client holds no connection handle.
Disconnected(o) == gpsd_socket[o] = None /\ gpsd_stream[o] = None

\* The client's last connect() completed its handshake and no disconnect() followed.
Ready(o) == hs[o] = "ok"

\* The call that has just ended.
Ended_op(ops) == pc = "idle" /\ call.op \in ops

\* A connection the process still has open (connected or not).
IsOpen(k) == conn[k].st \in {"open", "unconnected"}

\* The lines the last connect() read after its watch request: how many, and
\* the j-th of them (io holds the welcome line and the request before them).
NStateLines == Len(io) - 2
StateLine(j) == io[j + 2].msg

\* connect() (called by the user or by the constructor) has ended after a
\* valid welcome line.
ConnectEndedPastWelcome ==
    /\ Ended_op({"connect", "new"})
    /\ Len(io) >= 3
    /\ io[1].msg.class = "VERSION"

\* ------------------------------------------------------------- C1
\* C1 (as claimed): when connect() on a client the caller holds has failed with
\* a protocol error, the client holds no connection handle: socket and stream
\* are both unset.
C1_FailedConnectReleasesHandle ==
    (Ended_op({"connect"}) /\ ret.err = ProtocolError) => Disconnected(call.self)

\* ------------------------------------------------------------- C2
\* C2 (as claimed): no step of a from_json call opens or closes a connection,
\* writes a request, or changes the handle or the session state of a client
\* the caller holds.
C2_FromJsonNoSideEffects ==
    [][call'.op = "from_json" =>
          /\ conn' = conn
          /\ \A j \in DOMAIN io' : io'[j].dir # "w"
          /\ \A o \in held : /\ gpsd_socket'[o] = gpsd_socket[o]
                             /\ gpsd_stream'[o] = gpsd_stream[o]
                             /\ state(o)' = state(o)]_vars

\* ------------------------------------------------------------- C3
\* C3 (as claimed): no step of a poll() call on a Ready client changes that
\* client's session state.
C3_PollKeepsSessionState ==
    [][\A c \in held :
          (call'.op = "poll" /\ call'.self = c /\ Ready(c)) =>
              state(c)' = state(c)]_vars

\* ------------------------------------------------------------- C4
\* C4 (as claimed): a poll request is written only by a client in Ready state.
C4_PollRequestOnlyWhenReady ==
    \A j \in DOMAIN io :
        (io[j].dir = "w" /\ io[j].msg = PollReq) => Ready(conn[io[j].k].owner)

\* ------------------------------------------------------------- C5
\* C5 (as claimed): after poll() has failed with a protocol error the client
\* holds no connection handle and its session state is empty.
C5_FailedPollDisconnects ==
    (Ended_op({"poll"}) /\ ret.err = ProtocolError) =>
        (Disconnected(call.self) /\ state(call.self) = EmptyDict)

\* ------------------------------------------------------------- C6
\* C6: every Gpsd object has at most one open connection, and a connection
\* that is open is the one its owner currently references: a connection
\* opened by an earlier connect() is closed once a later connect() has opened
\* its own.
C6_AtMostOneConnection ==
    /\ \A o \in Objs :
          Cardinality({k \in Conns : conn[k].owner = o /\ IsOpen(k)}) <= 1
    /\ \A k \in Conns : IsOpen(k) => gpsd_socket[conn[k].owner] = k

\* C6 witness: a client has reconnected; its first connection is closed and
\* its second is open.
C6_Witness ==
    \E o \in held : \E k1, k2 \in Conns :
        /\ k1 # k2
        /\ conn[k1].owner = o /\ conn[k1].st = "closed"
        /\ conn[k2].owner = o /\ conn[k2].st = "open"
        /\ gpsd_socket[o] = k2 /\ gpsd_stream[o] = k2
        /\ Ready(o)

\* ------------------------------------------------------------- C7
\* C7 (as claimed): no step of an operation on one client (its constructor's
\* connect(), connect(), poll(), disconnect()) changes the session state
\* another client observes.
C7_SessionStateIsPerInstance ==
    [][\A b \in held :
          (call'.op \in {"new", "connect", "poll", "disconnect"} /\ call'.self # b)
              => state(b)' = state(b)]_vars

\* ------------------------------------------------------------- C8
\* C8 (as claimed): right after a successful connect() in which the client
\* received no DEVICES announcement, device() on that client fails.
C8_NoDevicesNoDeviceInfo ==
    (/\ Ended_op({"connect", "new"})
     /\ ret.err = "ok"
     /\ \A j \in DOMAIN io : io[j].msg.class # "DEVICES")
        => device_result(call.self).err # "ok"

\* ------------------------------------------------------------- C9
\* C9 (as claimed): disconnect() raises no error in any state; afterwards the
\* client holds no connection handle and its session state is empty.
C9_DisconnectTotal ==
    Ended_op({"disconnect"}) =>
        /\ ret.err = "ok"
        /\ Disconnected(call.self)
        /\ state(call.self) = EmptyDict

\* ------------------------------------------------------------- C10
\* C10 (as claimed): a connect() that has read a valid VERSION line has read
\* exactly two further lines when it ends.
C10_ReadsExactlyTwoLines ==
    ConnectEndedPastWelcome => NStateLines = StateLines

\* C10 (amended): after a valid VERSION line connect() reads at most two
\* further lines and stops at the first that is no DEVICES or WATCH
\* announcement; it succeeds iff it read two lines and both are DEVICES or
\* WATCH announcements; a line of any other class fails it with a protocol
\* error; and each announcement it accepted is in the client's session state
\* under its class, the later of two of one class replacing the earlier.
C10_Handshake ==
    ConnectEndedPastWelcome =>
        LET ls(j) == StateLine(j)
            n == NStateLines
            ann(l) == l.class \in {"DEVICES", "WATCH"}
            key(c) == IF c = "DEVICES" THEN state(call.self).devices
                      ELSE state(call.self).watch
        IN /\ n \in 1..2
           /\ call.i = n
           /\ \A j \in 1..(n - 1) : ann(ls(j))
           /\ (ret.err = "ok") <=> (n = 2 /\ ann(ls(1)) /\ ann(ls(2)))
           /\ (~ann(ls(n)) /\ ls(n).class # "GARBAGE") => ret.err = ProtocolError
           /\ \A j \in 1..n :
                 (ann(ls(j)) /\ \A m \in (j + 1)..n : ls(m).class # ls(j).class)
                     => key(ls(j).class) = ls(j)

\* C10 witness: a connect() on a held client has succeeded on two different
\* DEVICES announcements.
C10_Witness ==
    /\ ConnectEndedPastWelcome
    /\ call.op = "connect"
    /\ ret.err = "ok"
    /\ NStateLines = 2
    /\ StateLine(1).class = "DEVICES"
    /\ StateLine(2).class = "DEVICES"
    /\ StateLine(1) # StateLine(2)
    /\ state(call.self).devices = StateLine(2)

\* ------------------------------------------------------------- C11
\* C11 (as claimed): when poll() on a Ready client has ended, the call has
\* written exactly one request, the poll request on that client's connection,
\* and has read exactly one line, from that connection: no other request, no
\* other read, no connection attempt.
C11_PollOneRequestOneLine ==
    (Ended_op({"poll"}) /\ Ready(call.self)) =>
        /\ Len(io) = 2
        /\ io[1] = Sent(gpsd_stream[call.self], PollReq)
        /\ io[2].dir = "r"
        /\ io[2].k = gpsd_stream[call.self]

\* ------------------------------------------------------------- C12
\* The object from_json has filled and returned, and the final entries of the
\* report it was given.
Parsed == stage = "parsed"
FinalTpv == report.tpv[Len(report.tpv)]
FinalSky == report.sky[Len(report.sky)]

\* C12 (as claimed): on the snapshot of an active report, when the fix quality
\* is below 2, longitude, latitude, altitude, track, horizontal speed and climb
\* rate are 0, each of the six error margins is there and is 0, and the time
\* text is empty; when the fix quality is 2, altitude, climb rate, climb error
\* and vertical error are 0.
C12_ZeroDefaultsSixMargins ==
    Parsed =>
        /\ result.mode < 2 =>
              /\ result.lon = 0 /\ result.lat = 0 /\ result.alt = 0
              /\ result.track = 0 /\ result.hspeed = 0 /\ result.climb = 0
              /\ result.time = ""
              /\ \A k \in ErrorKeys : k \in result.error.has /\ result.error[k] = 0
        /\ result.mode = 2 =>
              /\ result.alt = 0 /\ result.climb = 0
              /\ result.error.c = 0 /\ result.error.v = 0

\* C12 (amended): on the snapshot of an active report the fix quality is the
\* mode of the last tpv entry; when it is below 2, longitude, latitude,
\* altitude, track, horizontal speed and climb rate are 0, the time text is
\* empty and the error mapping is empty: it holds none of the six margins;
\* when it is 2, altitude and climb rate are 0 and the climb error and the
\* vertical error are in the mapping and are 0.
C12_ZeroDefaults ==
    Parsed =>
        /\ result.mode = FinalTpv.mode
        /\ result.mode < 2 =>
              /\ result.lon = 0 /\ result.lat = 0 /\ result.alt = 0
              /\ result.track = 0 /\ result.hspeed = 0 /\ result.climb = 0
              /\ result.time = ""
              /\ result.error = EmptyError
        /\ result.mode = 2 =>
              /\ result.alt = 0 /\ result.climb = 0
              /\ {"c", "v"} \subseteq result.error.has
              /\ result.error.c = 0 /\ result.error.v = 0

\* C12 witness: the snapshot of a report whose last tpv entry has mode 1 and
\* carries every key, with a speed and a climb rate that are not 0.
C12_Witness ==
    /\ Parsed
    /\ result.mode = 1
    /\ FinalTpv.has = TpvKeys
    /\ FinalTpv.speed # 0 /\ FinalTpv.climb # 0 /\ FinalTpv.lon # 0
    /\ FinalTpv.eps # 0

\* ------------------------------------------------------------- C13
\* C13 (as claimed): on an object of fix quality 2 or more, speed() has
\* returned 0 when the absolute value of the horizontal speed is below the
\* speed error margin and the horizontal speed otherwise, and
\* speed_vertical() has returned 0 when the absolute value of the climb rate
\* is below the climb error margin and the climb rate otherwise.
C13_SpeedsFilteredByMagnitude ==
    /\ (out.op = "speed" /\ result.mode >= 2) =>
          /\ out.err = "ok"
          /\ out.val = IF abs(result.hspeed) < result.error.s
                       THEN <<0>> ELSE <<result.hspeed>>
    /\ (out.op = "speed_vertical" /\ result.mode >= 2) =>
          /\ out.err = "ok"
          /\ out.val = IF abs(result.climb) < result.error.c
                       THEN <<0>> ELSE <<result.climb>>

\* ------------------------------------------------------------- C14
\* C14: a query leaves every field of the object as it was; position(),
\* speed_vertical(), speed(), position_precision(), map_url() and get_time()
\* on an object of fix quality below 2, and altitude() and movement() on one
\* of fix quality below 3, fail with NoFixError and return no value.
C14_QueriesGatedAndPure ==
    [][out'.op \in Queries =>
          /\ result' = result
          /\ (/\ out'.op \in {"position", "speed_vertical", "speed",
                              "position_precision", "map_url", "get_time"}
              /\ result.mode < 2)
                 => (out'.err = NoFixError /\ out'.val = << >>)
          /\ (out'.op \in {"altitude", "movement"} /\ result.mode < 3)
                 => (out'.err = NoFixError /\ out'.val = << >>)]_vars

\* C14 witness: altitude() has failed on the snapshot of a report whose last
\* tpv entry has mode 2 and carries an altitude.
C14_Witness ==
    /\ Parsed
    /\ result.mode = 2
    /\ "alt" \in FinalTpv.has
    /\ out = Ans("altitude", NoFixError, << >>)

\* ------------------------------------------------------------- C15
\* The packet the running from_json call was given: the call's first step
\* records it, the later steps carry it.
FromJsonPacket == IF pc = "idle" THEN call'.packet ELSE call.packet

\* C15 (as claimed): a from_json call given a report with active=false ends
\* with the not-active error (UserWarning) and returns no object; and a
\* from_json or poll call that ends with an error returns no object.
C15_InactiveFailsNotActive ==
    [][/\ (call'.op = "from_json" /\ pc' = "idle" /\ ~FromJsonPacket.active)
             => (ret'.err = "UserWarning" /\ held' = held)
       /\ (call'.op \in {"from_json", "poll"} /\ pc' = "idle" /\ ret'.err # "ok")
             => held' = held]_vars

\* ------------------------------------------------------------- C16
\* The report reduced to the final entries of its sequences.
Reduced == [report EXCEPT !.tpv = <<FinalTpv>>, !.sky = <<FinalSky>>]

\* C16: the snapshot of an active report with non-empty tpv and sky sequences
\* is the snapshot of the report reduced to its final tpv entry and its final
\* sky entry: fix quality, position, speed and error fields are those of the
\* final tpv entry; the satellite counts are the number of satellites of the
\* final sky entry and the number of them flagged used (0 and 0 when the entry
\* lists none), and the dilution values are that entry's.
C16_LastEntriesWin ==
    Parsed =>
        /\ result = from_json_fields(Fresh, Reduced)
        /\ result.mode = FinalTpv.mode
        /\ result.sats = Len(FinalSky.satellites)
        /\ result.sats_valid =
              Cardinality({i \in DOMAIN FinalSky.satellites :
                              FinalSky.satellites[i].used})
        /\ result.hdop = FinalSky.hdop /\ result.pdop = FinalSky.pdop
        /\ result.mode >= 2 =>
              /\ result.lon = FinalTpv.lon /\ result.lat = FinalTpv.lat
              /\ result.hspeed = FinalTpv.speed
              /\ result.error.s = FinalTpv.eps /\ result.error.x = FinalTpv.epx

\* C16 witness: the snapshot of a report with two tpv entries and two sky
\* entries, the earlier ones differing from the last in mode, position and
\* satellites.
C16_Witness ==
    /\ Parsed
    /\ Len(report.tpv) = 2 /\ Len(report.sky) = 2
    /\ FinalTpv.mode = 2 /\ report.tpv[1].mode = 3
    /\ FinalTpv.has = TpvKeys /\ report.tpv[1].lon # FinalTpv.lon
    /\ FinalSky.has = SkyKeys
    /\ Len(report.sky[1].satellites) # Len(FinalSky.satellites)
    /\ result.lon = FinalTpv.lon /\ result.sats = 3 /\ result.sats_valid = 2

\* ------------------------------------------------------------- C17
\* The running (or last) call has written the watch request as its j-th step
\* of I/O.
WatchWrittenAt(j) == io[j].dir = "w" /\ io[j].msg = WatchReq

\* C17: a call writes the watch request at most once; the request directly
\* follows the read of a VERSION line on the same connection, and that read is
\* the first I/O on the connection, so no state line was read before it; on a
\* connection whose first I/O is the read of a line that is no VERSION line,
\* nothing is ever written.
C17_WatchAfterVersionOnce ==
    /\ \A j \in DOMAIN io :
          WatchWrittenAt(j) =>
              /\ j > 1
              /\ io[j - 1].dir = "r"
              /\ io[j - 1].k = io[j].k
              /\ io[j - 1].msg.class = "VERSION"
              /\ \A m \in 1..(j - 2) : io[m].k # io[j].k
              /\ \A m \in DOMAIN io : WatchWrittenAt(m) => m = j
    /\ \A j \in DOMAIN io :
          (/\ io[j].dir = "r"
           /\ io[j].msg.class # "VERSION"
           /\ \A m \in 1..(j - 1) : io[m].k # io[j].k)
              => \A m \in DOMAIN io : io[m].k = io[j].k => io[m].dir = "r"

\* C17 witness: a connect() on a held client has succeeded: it read the
\* VERSION line, wrote the watch request, then read the two state lines.
C17_Witness ==
    /\ Ended_op({"connect"})
    /\ ret.err = "ok"
    /\ Len(io) = 4
    /\ io[1].dir = "r" /\ io[1].msg.class = "VERSION"
    /\ WatchWrittenAt(2)
    /\ io[3].dir = "r" /\ io[4].dir = "r"

\* ------------------------------------------------------------- C18
\* C18: no step of a poll(), connect() or disconnect() call changes a position
\* field of an object the caller holds, the polling client and every snapshot
\* returned earlier among them; and the object a successful poll() returns is
\* one the caller did not hold before, not the polling client, and holds the
\* fields of the polled report.
C18_PollReturnsFreshSnapshot ==
    [][/\ call'.op \in {"poll", "connect", "disconnect"} =>
             \A o \in held : pos'[o] = pos[o]
       /\ (call'.op = "poll" /\ pc # "idle" /\ pc' = "idle" /\ ret'.err = "ok") =>
             /\ ret'.obj \notin held
             /\ ret'.obj # call.self
             /\ ret'.obj \in held'
             /\ pos'[ret'.obj] = from_json_fields(Fresh, PollReport(call.packet))]_vars

\* C18 witness: poll() has succeeded on a client that is itself a snapshot
\* returned earlier (its fix quality is 3); the caller holds both objects and
\* the client still has the fields it had.
C18_Witness ==
    /\ Ended_op({"poll"})
    /\ ret.err = "ok"
    /\ ret.obj # call.self
    /\ {ret.obj, call.self} \subseteq held
    /\ pos[call.self].mode = 3
    /\ pos[call.self].lon = 11
    /\ pos[ret.obj].mode = 3

\* ------------------------------------------------------------- C19
\* A call is blocked in readline().
Blocked == pc # "idle"

\* C19: with a daemon that delivers a line for every read, a call that is
\* blocked in a read eventually returns or fails; and while a call is blocked
\* the only step there is starts with the read of a delivered line: the log
\* of the call's I/O grows by that read first, and the one request that may
\* follow it in the same step is the watch request of the handshake, never a
\* repeated poll request. Without a line the blocked call takes no step.
C19_BlockedUntilLine ==
    /\ Blocked ~> (pc = "idle")
    /\ [][Blocked =>
            /\ Len(io') > Len(io)
            /\ SubSeq(io', 1, Len(io)) = io
            /\ io'[Len(io) + 1].dir = "r"
            /\ \A m \in (Len(io) + 2)..Len(io') :
                  io'[m].dir = "w" /\ io'[m].msg = WatchReq]_vars

\* C19 witness: a poll() has returned after all of its four blocking reads:
\* the answer to the poll request and the three lines of the handshake of the
\* object it returns.
C19_Witness ==
    /\ Ended_op({"poll"})
    /\ ret.err = "ok"
    /\ Len(io) = 6
    /\ \A j \in {2, 3, 5, 6} : io[j].dir = "r"

\* ------------------------------------------------------------- C20
\* C20: the object from_json works on, freshly constructed or filled, has an
\* error mapping with all six keys c, s, t, v, x and y when its mode is 2 or
\* more, and an empty error mapping when its mode is below 2; speed(),
\* speed_vertical() and position_precision() therefore never fail with a
\* missing-key error.
C20_ErrorKeysFollowMode ==
    /\ result.mode >= 2 => result.error.has = {"c", "s", "t", "v", "x", "y"}
    /\ result.mode < 2 => (result.error.has = {} /\ result.error = EmptyError)
    /\ out.op \in {"speed", "speed_vertical", "position_precision"}
          => out.err \in {"ok", NoFixError}

\* C20 witness: position_precision() has succeeded on the snapshot of a
\* mode 2 report whose last tpv entry carries no error estimate at all.
C20_Witness ==
    /\ Parsed
    /\ result.mode = 2
    /\ FinalTpv.has = {}
    /\ out.op = "position_precision"
    /\ out.err = "ok"

====
